---------------------------- MODULE Spec2Model ----------------------------
(***************************************************************************)
(* Model of sales_numbers.py, the Amazon brand sales aggregator:           *)
(* find_sales_columns, parse_money, detect_brand, aggregate_sales and the  *)
(* Streamlit upload flow that calls them.                                  *)
(*                                                                         *)
(* Text is a sequence of one-character strings.  A float is an integer     *)
(* number of quanta of 10^-FracDigits that fits MantBits significant bits; *)
(* every float operation rounds to nearest, ties to even, as IEEE-754      *)
(* binary64 does with 53 bits.                                             *)
(***************************************************************************)
EXTENDS Integers, Sequences, FiniteSets, TLC

\* ------------------------------- bounds -------------------------------
\* longest cell text drawn for parse_money
MaxLen == 3
\* longest SKU text drawn for detect_brand (letters after a chosen stem)
MaxTail == 2
\* most columns of a header drawn for find_sales_columns
MaxCols == 2
\* most data rows of an uploaded report
MaxRows == 3
\* significant bits of a float (53 in the program, scaled down)
MantBits == 7
\* decimal digits below one that a quantum resolves
FracDigits == 2

\* ------------------------------ characters ----------------------------
\* the one-character token that stands for U+2013 EN DASH
EnDash == "ndash"
\* the one-character token that stands for U+20AC EURO SIGN
Euro == "euro"

\* the characters of the model, in code point order
Ascii ==
  << "\t", " ", "$", "(", ")", ",", "-", ".",
     "0", "1", "2", "3", "4", "5", "6", "7", "8", "9",
     "A", "B", "C", "D", "E", "F", "G", "H", "I", "J", "K", "L", "M",
     "N", "O", "P", "Q", "R", "S", "T", "U", "V", "W", "X", "Y", "Z",
     "_",
     "a", "b", "c", "d", "e", "f", "g", "h", "i", "j", "k", "l", "m",
     "n", "o", "p", "q", "r", "s", "t", "u", "v", "w", "x", "y", "z",
     EnDash, Euro >>

Ord(c) == CHOOSE i \in 1..Len(Ascii) : Ascii[i] = c

Digits == {"0", "1", "2", "3", "4", "5", "6", "7", "8", "9"}

DigitVal(c) == Ord(c) - Ord("0")

UpperCase == {Ascii[i] : i \in Ord("A")..Ord("Z")}

IsUpper(c) == c \in UpperCase

\* str.lower() on one character
LowerChar(c) == IF IsUpper(c) THEN Ascii[Ord(c) + (Ord("a") - Ord("A"))] ELSE c

\* str.lower()
Lower(s) == [i \in 1..Len(s) |-> LowerChar(s[i])]

\* the characters str.strip() and the regex class \s remove
Whitespace == {" ", "\t"}

RECURSIVE LStrip(_)
LStrip(s) == IF s # <<>> /\ Head(s) \in Whitespace THEN LStrip(Tail(s)) ELSE s

RECURSIVE RStrip(_)
RStrip(s) ==
  IF s # <<>> /\ s[Len(s)] \in Whitespace THEN RStrip(SubSeq(s, 1, Len(s) - 1)) ELSE s

\* str.strip()
Strip(s) == RStrip(LStrip(s))

StartsWith(s, p) == Len(s) >= Len(p) /\ SubSeq(s, 1, Len(p)) = p

\* lexicographic order of text by code point, as Python compares str
RECURSIVE StrLess(_, _)
StrLess(a, b) ==
  IF b = <<>> THEN FALSE
  ELSE IF a = <<>> THEN TRUE
  ELSE IF Head(a) # Head(b) THEN Ord(Head(a)) < Ord(Head(b))
  ELSE StrLess(Tail(a), Tail(b))

\* -------------------------------- floats ------------------------------
RECURSIVE Pow(_, _)
Pow(b, n) == IF n = 0 THEN 1 ELSE b * Pow(b, n - 1)

\* quanta in one unit of money
Scale == Pow(10, FracDigits)

Abs(x) == IF x < 0 THEN -x ELSE x

RECURSIVE BitLen(_)
BitLen(n) == IF n = 0 THEN 0 ELSE 1 + BitLen(n \div 2)

\* n/d for n >= 0, d > 0, rounded to the nearest integer, ties to even
RoundHalfEven(n, d) ==
  LET q == n \div d
      r == n % d
  IN  IF 2 * r > d \/ (2 * r = d /\ q % 2 = 1) THEN q + 1 ELSE q

\* the float nearest to x quanta
Fl(x) ==
  LET a == Abs(x)
      k == BitLen(a) - MantBits
      m == IF k <= 0 THEN a ELSE RoundHalfEven(a, Pow(2, k)) * Pow(2, k)
  IN  IF x < 0 THEN -m ELSE m

\* float + float
FAdd(x, y) == Fl(x + y)

\* --------------------------- cells and results ------------------------
\* a cell of the table: NaN (blank), a number, or text
NaN == [t |-> "nan", v |-> 0, s |-> <<>>]
Num(n) == [t |-> "num", v |-> n, s |-> <<>>]
Str(s) == [t |-> "str", v |-> 0, s |-> s]

\* how a call ends: it returns val, or raises an exception of type exc
Return(x) == [raised |-> FALSE, exc |-> "", msg |-> "", val |-> x]
Raise(type, text) == [raised |-> TRUE, exc |-> type, msg |-> text, val |-> 0]

\* ----------------------------- parse_money ----------------------------
RECURSIVE IntVal(_)
IntVal(ds) == IF ds = <<>> THEN 0 ELSE 10 * IntVal(SubSeq(ds, 1, Len(ds) - 1)) + DigitVal(ds[Len(ds)])

IsDigit(c) == c \in Digits

\* float(text) for text made of digits and periods: at most one period and
\* at least one digit, else ValueError
PyFloat(clean) ==
  LET dots == {i \in 1..Len(clean) : clean[i] = "."}
      ds == SelectSeq(clean, IsDigit)
      nfrac == IF dots = {} THEN 0 ELSE Len(clean) - (CHOOSE i \in dots : TRUE)
  IN  IF Cardinality(dots) > 1 \/ ds = <<>>
        THEN Raise("ValueError", "could not convert string to float")
        ELSE Return(Fl(RoundHalfEven(IntVal(ds) * Scale, Pow(10, nfrac))))

KeepsDigitOrDot(c) == c \in Digits \cup {"."}

parse_money(value) ==
  IF value.t = "nan" THEN Return(0)
  ELSE IF value.t # "str" THEN Return(Fl(value.v))
  ELSE LET clean == SelectSeq(value.s, KeepsDigitOrDot)
       IN  IF clean # <<>> THEN PyFloat(clean) ELSE Return(0)

\* ----------------------------- detect_brand ---------------------------
\* the brand labels
TheoniaEU == <<"T", "h", "e", "o", "n", "i", "a", " ", "E", "U">>
PupGradeEU == <<"P", "u", "p", "G", "r", "a", "d", "e", " ", "E", "U">>
CosyHouseEU == <<"C", "o", "s", "y", " ", "H", "o", "u", "s", "e", " ", "E", "U">>
Other == <<"O", "t", "h", "e", "r">>

\* the prefix each pattern '^...' anchors, and its brand, in dict order
BRAND_MAP ==
  << [pattern |-> <<"T", "H", "_">>, brand |-> TheoniaEU],
     [pattern |-> <<"E", "U", "-", "P", "G", "-">>, brand |-> PupGradeEU],
     [pattern |-> <<"E", "U", "-", "P", "C", "-", "B", "-">>, brand |-> CosyHouseEU] >>

RECURSIVE IntToStr(_)
IntToStr(n) ==
  IF n < 0 THEN <<"-">> \o IntToStr(-n)
  ELSE IF n < 10 THEN <<Ascii[Ord("0") + n]>>
  ELSE IntToStr(n \div 10) \o <<Ascii[Ord("0") + (n % 10)]>>

\* str(sku): NaN prints as 'nan', an integer as its digits
PyStr(sku) ==
  IF sku.t = "nan" THEN <<"n", "a", "n">>
  ELSE IF sku.t = "num" THEN IntToStr(sku.v)
  ELSE sku.s

\* re.match with re.I: the prefix is compared without case
re_match_ignorecase(pattern, text) == StartsWith(Lower(text), Lower(pattern))

\* re.match(pattern, text) for a pattern '^' followed by literal characters
re_match(pattern, text) == StartsWith(text, pattern)

RECURSIVE DetectFrom(_, _)
DetectFrom(i, sku) ==
  IF i > Len(BRAND_MAP) THEN Other
  ELSE IF re_match(BRAND_MAP[i].pattern, PyStr(sku)) THEN BRAND_MAP[i].brand
  ELSE DetectFrom(i + 1, sku)

\* detect_brand that leaves a blank SKU without a brand
detect_brand_blank_missing(sku) == IF sku.t = "nan" THEN <<"NaN">> ELSE DetectFrom(1, sku)

detect_brand(sku) == DetectFrom(1, sku)

\* -------------------------- find_sales_columns ------------------------
ordered_product_sales ==
  << "o", "r", "d", "e", "r", "e", "d", " ", "p", "r", "o", "d", "u", "c", "t", " ",
     "s", "a", "l", "e", "s" >>

RECURSIVE SkipSpace(_)
SkipSpace(s) == IF s # <<>> /\ Head(s) \in Whitespace THEN SkipSpace(Tail(s)) ELSE s

\* the pattern with the character class [<en dash>] alone: no hyphen
MatchB2B_en_dash_only(name) ==
  LET n == Lower(name)
  IN  /\ StartsWith(n, ordered_product_sales)
      /\ LET r1 == SkipSpace(SubSeq(n, Len(ordered_product_sales) + 1, Len(n)))
         IN  /\ r1 # <<>>
             /\ Head(r1) = EnDash
             /\ StartsWith(SkipSpace(Tail(r1)), <<"b", "2", "b">>)

\* re.match(r'ordered product sales\s*[<en dash>-]\s*b2b', name, re.I):
\* anchored at the start only, letters compared without case
MatchB2B(name) ==
  LET n == Lower(name)
  IN  /\ StartsWith(n, ordered_product_sales)
      /\ LET r1 == SkipSpace(SubSeq(n, Len(ordered_product_sales) + 1, Len(n)))
         IN  /\ r1 # <<>>
             /\ Head(r1) \in {EnDash, "-"}
             /\ StartsWith(SkipSpace(Tail(r1)), <<"b", "2", "b">>)

\* a column name, or None: <<>> is None and <<c>> is the column c
None == <<>>
Some(c) == <<c>>

\* the columns the loop over df.columns assigns to total_col
ConsumerColumns(columns) ==
  {i \in 1..Len(columns) : Lower(Strip(columns[i])) = ordered_product_sales}

\* the columns the loop over df.columns assigns to b2b_col
B2BColumns(columns) == {i \in 1..Len(columns) : MatchB2B(Lower(Strip(columns[i])))}

\* what the loop leaves in a variable it assigns the columns hits to, in
\* order: None, or the last of them
LastColumn(columns, hits) ==
  IF hits = {} THEN None
  ELSE Some(columns[CHOOSE i \in hits : \A j \in hits : j <= i])

\* find_sales_columns that settles for the B2B column when the consumer
\* column is missing
find_sales_columns_either(columns) ==
  LET total_col == LastColumn(columns, ConsumerColumns(columns))
      b2b_col == LastColumn(columns, B2BColumns(columns))
  IN  IF total_col = None /\ b2b_col = None
        THEN Raise("ValueError", "Couldn't find 'Ordered Product Sales' column.")
        ELSE Return(<<IF total_col = None THEN b2b_col ELSE total_col, b2b_col>>)

find_sales_columns(columns) ==
  LET total_col == LastColumn(columns, ConsumerColumns(columns))
      b2b_col == LastColumn(columns, B2BColumns(columns))
  IN  IF total_col = None
        THEN Raise("ValueError", "Couldn't find 'Ordered Product Sales' column.")
        ELSE Return(<<total_col, b2b_col>>)


\* ------------------------------- inputs -------------------------------
\* every text over alphabet A of at most n characters
RECURSIVE TextUpTo(_, _)
TextUpTo(A, n) ==
  IF n = 0 THEN {<<>>}
  ELSE LET shorter == TextUpTo(A, n - 1)
       IN  shorter \cup {Append(t, c) : t \in {u \in shorter : Len(u) = n - 1}, c \in A}

UpperChar(c) ==
  IF Ord(c) >= Ord("a") /\ Ord(c) <= Ord("z") THEN Ascii[Ord(c) - (Ord("a") - Ord("A"))] ELSE c

\* text s with the characters at the positions P in upper case
UpperAt(s, P) == [i \in 1..Len(s) |-> IF i \in P THEN UpperChar(s[i]) ELSE s[i]]

\* 'Ordered Product Sales', the consumer column as Amazon names it
OrderedProductSales == UpperAt(ordered_product_sales, {1, 9, 17})

\* 'Ordered product sales <en dash> B2B', the B2B column as Amazon names it
OrderedProductSalesB2B ==
  UpperAt(ordered_product_sales, {1}) \o <<" ", EnDash, " ", "B", "2", "B">>

SKU == <<"S", "K", "U">>

\* the column names a header is drawn from
ColumnNames ==
  { OrderedProductSales,
    ordered_product_sales,
    <<" ">> \o UpperAt(ordered_product_sales, 1..21) \o <<" ", "\t">>,
    <<"O", "r", "d", "e", "r", "e", "d", " ", "P", "r", "o", "d", "u", "c", "t", " ",
      "S", "a", "l", "e">>,
    OrderedProductSalesB2B,
    OrderedProductSales \o <<" ", "-", " ", "B", "2", "B">>,
    ordered_product_sales \o <<"-", "b", "2", "b">>,
    OrderedProductSales \o <<" ", "B", "2", "B">>,
    OrderedProductSalesB2B \o <<" ", "(", "o", "l", "d", ")">>,
    SKU,
    <<"U", "n", "i", "t", "s">> }

\* headers of at most n distinct columns (read_csv keeps column names distinct)
HeadersUpTo(n) ==
  {h \in TextUpTo(ColumnNames, n) : \A i, j \in 1..Len(h) : i # j => h[i] # h[j]}

\* cell values handed to parse_money
MoneyValues ==
  {NaN} \cup {Num(n) : n \in {-150, 0, 7, 129, 250}}
        \cup {Str(s) : s \in TextUpTo({"1", "5", ".", ",", "$", "-"}, MaxLen)}

Prefixes(s) == {SubSeq(s, 1, k) : k \in 0..Len(s)}

\* SKU values handed to detect_brand: a stem near a brand prefix, then a tail
SkuValues ==
  LET pats == {BRAND_MAP[i].pattern : i \in 1..Len(BRAND_MAP)}
      stems == UNION {Prefixes(p) \cup Prefixes(Lower(p)) \cup {<<"X">> \o p} : p \in pats}
  IN  {NaN, Num(7), Num(-12)}
        \cup {Str(st \o tl) : st \in stems, tl \in TextUpTo({"_", "-", "G", "1"}, MaxTail)}

\* the cells of the uploaded reports' columns
SkuCells == {NaN, Str(<<"T", "H", "_", "1">>)}

ConsumerCells ==
  { Str(<<"$", "1", ".", "5", "0">>), Str(<<"1", ".", "2", "5">>),
    Str(<<"n", ".", "a", ".">>) }

B2BCells == {NaN, Str(<<Euro, "0", ".", "5", "0">>)}

OtherCells == {Num(1)}

CellsOf(col) ==
  IF col = OrderedProductSales THEN ConsumerCells
  ELSE IF col = OrderedProductSalesB2B THEN B2BCells
  ELSE IF col = SKU THEN SkuCells
  ELSE OtherCells

\* the headers of the uploaded reports: any columns of the full report, in its order
ReportHeaders ==
  LET full == <<SKU, OrderedProductSales, OrderedProductSalesB2B>>
      keep(S) == SelectSeq(full, LAMBDA c : c \in S)
  IN  {keep(S) : S \in (SUBSET {full[i] : i \in 1..Len(full)}) \ {{}}}
        \cup {<<Lower(SKU), OrderedProductSales>>}

\* the rows a report with header h can hold: one cell for each column
RECURSIVE RowsOf(_)
RowsOf(h) ==
  IF h = <<>> THEN {<<>>}
  ELSE {<<c>> \o r : c \in CellsOf(Head(h)), r \in RowsOf(Tail(h))}

\* an uploaded file: bytes read_csv cannot read, or a header and its rows
Unreadable == [readable |-> FALSE, columns |-> <<>>, rows |-> <<>>]
Report(h, rs) == [readable |-> TRUE, columns |-> h, rows |-> rs]

\* -------------------------------- state -------------------------------
VARIABLES
  pc,            \* the statement the script is at
  arg,           \* the argument of a function called on its own
  ret,           \* what that call returned or raised
  uploaded_file, \* None or the uploaded file
  df,            \* the table load_report returned, with the columns added to it
  total_col,     \* find_sales_columns' first result
  b2b_col,       \* find_sales_columns' second result
  summary_df,    \* None or the summary aggregate_sales returned
  exc,           \* None or the exception that is propagating
  ui             \* the elements rendered so far, in order

vars == <<pc, arg, ret, uploaded_file, df, total_col, b2b_col, summary_df, exc, ui>>

NoTable ==
  [columns |-> <<>>, rows |-> <<>>, derived |-> {},
   sales_consumer |-> <<>>, sales_b2b |-> <<>>, sales_total |-> <<>>, Brand |-> <<>>]

Element(kind, text, data) == [kind |-> kind, text |-> text, data |-> data]

\* the script ran with no file uploaded: st.info is all it rendered
Idle ==
  /\ uploaded_file = None
  /\ df = NoTable
  /\ total_col = None
  /\ b2b_col = None
  /\ summary_df = None
  /\ exc = None
  /\ ui = <<Element("info", "Upload a CSV to begin.", <<>>)>>

\* ------------------- the functions called on their own ----------------
NotCalled == Return(0)

InitCall(values) ==
  /\ pc = "call"
  /\ arg \in values
  /\ ret = NotCalled
  /\ Idle

Returned(r) ==
  /\ pc = "call"
  /\ ret' = r
  /\ pc' = "returned"
  /\ UNCHANGED <<arg, uploaded_file, df, total_col, b2b_col, summary_df, exc, ui>>

CallParseMoney == Returned(parse_money(arg))

CallDetectBrand == Returned(Return(detect_brand(arg)))

CallFindSalesColumns == Returned(find_sales_columns(arg))

SpecMoney == InitCall(MoneyValues) /\ [][CallParseMoney]_vars

SpecBrand == InitCall(SkuValues) /\ [][CallDetectBrand]_vars

SpecColumns == InitCall(HeadersUpTo(MaxCols)) /\ [][CallFindSalesColumns]_vars

\* ---------------------------- aggregate_sales -------------------------
\* df[name] as the sequence of its cells, for a column the table has
Column(table, name) ==
  LET j == CHOOSE j \in 1..Len(table.columns) : table.columns[j] = name
  IN  [i \in 1..Len(table.rows) |-> table.rows[i][j]]

\* Series.apply(parse_money): the column of results, or the first exception raised
ApplyParseMoney(cells) ==
  LET rs == [i \in 1..Len(cells) |-> parse_money(cells[i])]
      bad == {i \in 1..Len(cells) : rs[i].raised}
  IN  IF bad # {}
        THEN rs[CHOOSE i \in bad : \A j \in bad : i <= j]
        ELSE Return([i \in 1..Len(cells) |-> rs[i].val])

\* the label pandas treats as a missing group key
NullLabel == <<"NaN">>

\* the float sum, in row order, of the values xs of the rows in the set rows
RECURSIVE SumRows(_, _, _)
SumRows(xs, rows, n) ==
  IF n = 0 THEN 0
  ELSE IF n \in rows THEN FAdd(SumRows(xs, rows, n - 1), xs[n])
  ELSE SumRows(xs, rows, n - 1)

\* the texts of S in ascending order
RECURSIVE SortedTexts(_)
SortedTexts(S) ==
  IF S = {} THEN <<>>
  ELSE LET m == CHOOSE x \in S : \A y \in S : y = x \/ StrLess(x, y)
       IN  <<m>> \o SortedTexts(S \ {m})

\* df.groupby('Brand')[[...]].sum().rename(...): one row per brand that is not
\* missing, the groups in ascending order of the label
GroupBySum(table) ==
  LET n == Len(table.rows)
      keys == SortedTexts({table.Brand[i] : i \in 1..n} \ {NullLabel})
      members(b) == {i \in 1..n : table.Brand[i] = b}
  IN  [k \in 1..Len(keys) |->
         [Brand |-> keys[k],
          Consumer_Sales |-> SumRows(table.sales_consumer, members(keys[k]), n),
          B2B_Sales |-> SumRows(table.sales_b2b, members(keys[k]), n),
          Total_Sales |-> SumRows(table.sales_total, members(keys[k]), n)]]

Descending(rows) ==
  \A k \in 1..(Len(rows) - 1) : rows[k].Total_Sales >= rows[k + 1].Total_Sales

\* sort_values with ascending left at its default, True
SortValues_ascending(groups) ==
  {s \in {[k \in 1..Len(groups) |-> groups[p[k]]] : p \in Permutations(1..Len(groups))} :
     \A k \in 1..(Len(s) - 1) : s[k].Total_Sales <= s[k + 1].Total_Sales}

\* .sort_values('Total Sales', ascending=False).reset_index(): the default sort
\* kind is quicksort, which is not stable, so rows of equal Total Sales may
\* come out in any order
SortValues(groups) ==
  {[k \in 1..Len(groups) |-> groups[p[k]]] : p \in Permutations(1..Len(groups))}
    \cap {s \in [1..Len(groups) -> {groups[k] : k \in 1..Len(groups)}] : Descending(s)}

\* ------------------------------ the script ----------------------------
Keep(unchanged) == UNCHANGED <<arg, ret, uploaded_file>> /\ UNCHANGED unchanged

\* the exception e leaves the try block for the except clause
Throw(e) ==
  /\ exc' = Some([type |-> e.exc, msg |-> e.msg])
  /\ pc' = "except"

Init ==
  /\ pc = "idle"
  /\ arg = <<>>
  /\ ret = NotCalled
  /\ Idle

\* the user drops a file on st.file_uploader; the script runs again from the top
Upload ==
  /\ pc = "idle"
  /\ \/ uploaded_file' = Some(Unreadable)
     \/ \E h \in ReportHeaders, n \in 0..MaxRows :
          \E rs \in [1..n -> RowsOf(h)] : uploaded_file' = Some(Report(h, rs))
  /\ ui' = <<>>
  /\ pc' = "load_report"
  /\ UNCHANGED <<arg, ret, df, total_col, b2b_col, summary_df, exc>>

\* the script with st.success moved above the work it reports
LoadReport_success_first ==
  /\ pc = "load_report"
  /\ ui' = Append(ui, Element("success", "Report processed!", <<>>))
  /\ LET f == uploaded_file[1]
     IN  IF f.readable
           THEN /\ df' = [NoTable EXCEPT !.columns = f.columns, !.rows = f.rows]
                /\ pc' = "find_sales_columns"
                /\ UNCHANGED exc
           ELSE /\ Throw(Raise("ParserError", "Error tokenizing data"))
                /\ UNCHANGED df
  /\ Keep(<<total_col, b2b_col, summary_df>>)

\* df = load_report(uploaded_file)
LoadReport ==
  /\ pc = "load_report"
  /\ LET f == uploaded_file[1]
     IN  IF f.readable
           THEN /\ df' = [NoTable EXCEPT !.columns = f.columns, !.rows = f.rows]
                /\ pc' = "find_sales_columns"
                /\ UNCHANGED exc
           ELSE /\ Throw(Raise("ParserError", "Error tokenizing data"))
                /\ UNCHANGED df
  /\ Keep(<<total_col, b2b_col, summary_df, ui>>)

\* total_col, b2b_col = find_sales_columns(df)
FindSalesColumns ==
  /\ pc = "find_sales_columns"
  /\ LET r == find_sales_columns(df.columns)
     IN  IF r.raised
           THEN Throw(r) /\ UNCHANGED <<total_col, b2b_col>>
           ELSE /\ total_col' = r.val[1]
                /\ b2b_col' = r.val[2]
                /\ pc' = "sales_consumer"
                /\ UNCHANGED exc
  /\ Keep(<<df, summary_df, ui>>)

\* df['__sales_consumer'] = df[total_col].apply(parse_money)
SalesConsumer ==
  /\ pc = "sales_consumer"
  /\ LET r == ApplyParseMoney(Column(df, total_col[1]))
     IN  IF r.raised
           THEN Throw(r) /\ UNCHANGED df
           ELSE /\ df' = [df EXCEPT !.sales_consumer = r.val,
                                    !.derived = @ \cup {"__sales_consumer"}]
                /\ pc' = "sales_b2b"
                /\ UNCHANGED exc
  /\ Keep(<<total_col, b2b_col, summary_df, ui>>)

\* if b2b_col: df['__sales_b2b'] = df[b2b_col].apply(parse_money)
\* else:       df['__sales_b2b'] = 0.0
SalesB2B ==
  /\ pc = "sales_b2b"
  /\ LET r == IF b2b_col # None
                THEN ApplyParseMoney(Column(df, b2b_col[1]))
                ELSE Return([i \in 1..Len(df.rows) |-> 0])
     IN  IF r.raised
           THEN Throw(r) /\ UNCHANGED df
           ELSE /\ df' = [df EXCEPT !.sales_b2b = r.val,
                                    !.derived = @ \cup {"__sales_b2b"}]
                /\ pc' = "sales_total"
                /\ UNCHANGED exc
  /\ Keep(<<total_col, b2b_col, summary_df, ui>>)

\* df['__sales_total'] = df['__sales_consumer'] + df['__sales_b2b']
SalesTotal ==
  /\ pc = "sales_total"
  /\ df' = [df EXCEPT
              !.sales_total = [i \in 1..Len(df.rows) |->
                                 FAdd(df.sales_consumer[i], df.sales_b2b[i])],
              !.derived = @ \cup {"__sales_total"}]
  /\ pc' = "brand"
  /\ Keep(<<total_col, b2b_col, summary_df, exc, ui>>)

\* df['Brand'] = df['SKU'].apply(detect_brand)
Brand ==
  /\ pc = "brand"
  /\ IF \E j \in 1..Len(df.columns) : df.columns[j] = SKU
       THEN /\ df' = [df EXCEPT
                        !.Brand = [i \in 1..Len(df.rows) |->
                                     detect_brand(Column(df, SKU)[i])],
                        !.derived = @ \cup {"Brand"}]
            /\ pc' = "summary"
            /\ UNCHANGED exc
       ELSE /\ Throw(Raise("KeyError", "'SKU'"))
            /\ UNCHANGED df
  /\ Keep(<<total_col, b2b_col, summary_df, ui>>)

\* summary = df.groupby('Brand')[...].sum().rename(...).sort_values(...)
\*              .reset_index(); return summary
Summary ==
  /\ pc = "summary"
  /\ \E s \in SortValues(GroupBySum(df)) : summary_df' = Some(s)
  /\ pc' = "success"
  /\ Keep(<<df, total_col, b2b_col, exc, ui>>)

\* st.success("Report processed!")
Success ==
  /\ pc = "success"
  /\ ui' = Append(ui, Element("success", "Report processed!", <<>>))
  /\ pc' = "dataframe"
  /\ Keep(<<df, total_col, b2b_col, summary_df, exc>>)

\* st.subheader("Sales by Brand"); st.dataframe(summary_df, ...)
Dataframe ==
  /\ pc = "dataframe"
  /\ ui' = Append(ui, Element("dataframe", "Sales by Brand", summary_df[1]))
  /\ pc' = "metrics"
  /\ Keep(<<df, total_col, b2b_col, summary_df, exc>>)

\* st.subheader("Key Metrics"); for _, row in summary_df.iterrows(): st.metric(...)
Metrics ==
  /\ pc = "metrics"
  /\ ui' = ui \o [k \in 1..Len(summary_df[1]) |->
                    Element("metric", summary_df[1][k].Brand,
                            <<summary_df[1][k].Total_Sales>>)]
  /\ pc' = "done"
  /\ Keep(<<df, total_col, b2b_col, summary_df, exc>>)

\* except Exception as e: st.error(f"Error processing file: {e}")
Except ==
  /\ pc = "except"
  /\ ui' = Append(ui, Element("error", "Error processing file: ", exc[1]))
  /\ pc' = "done"
  /\ Keep(<<df, total_col, b2b_col, summary_df, exc>>)

\* the user clears the uploader: the script runs again with no file
Clear ==
  /\ pc = "done"
  /\ pc' = "idle"
  /\ uploaded_file' = None
  /\ df' = NoTable
  /\ total_col' = None
  /\ b2b_col' = None
  /\ summary_df' = None
  /\ exc' = None
  /\ ui' = <<Element("info", "Upload a CSV to begin.", <<>>)>>
  /\ UNCHANGED <<arg, ret>>

Next ==
  \/ Upload
  \/ LoadReport
  \/ FindSalesColumns
  \/ SalesConsumer
  \/ SalesB2B
  \/ SalesTotal
  \/ Brand
  \/ Summary
  \/ Success
  \/ Dataframe
  \/ Metrics
  \/ Except
  \/ Clear

Spec == Init /\ [][Next]_vars

\* ------------------------------- claims -------------------------------
\* the uploaded report was read, and these speak of its header
Loaded == uploaded_file # None /\ uploaded_file[1].readable

Header == uploaded_file[1].columns

Rows == uploaded_file[1].rows

Normal(col) == Lower(Strip(col))

HasConsumerColumn == \E j \in 1..Len(Header) : Normal(Header[j]) = ordered_product_sales

\* n is 'ordered product sales', i whitespace, an en dash or a hyphen,
\* j whitespace, 'b2b', and then whatever follows
B2BForm(n) ==
  \E i, j \in 0..Len(n) :
    LET at == Len(ordered_product_sales) + i + 1
    IN  /\ Len(n) >= at + j + 3
        /\ SubSeq(n, 1, Len(ordered_product_sales)) = ordered_product_sales
        /\ \A q \in (Len(ordered_product_sales) + 1)..(at - 1) : n[q] \in Whitespace
        /\ n[at] \in {EnDash, "-"}
        /\ \A q \in (at + 1)..(at + j) : n[q] \in Whitespace
        /\ SubSeq(n, at + j + 1, at + j + 3) = <<"b", "2", "b">>

HasB2BColumn == \E j \in 1..Len(Header) : B2BForm(Normal(Header[j]))

HasSkuColumn == \E j \in 1..Len(Header) : Header[j] = SKU

\* the value of column col in row i of the uploaded report
Cell(i, col) == Rows[i][CHOOSE j \in 1..Len(Header) : Header[j] = col]

\* parse_money(consumer cell) + parse_money(B2B cell) of row i
RowTotal(i) ==
  FAdd(parse_money(Cell(i, total_col[1])).val,
       IF b2b_col = None THEN 0 ELSE parse_money(Cell(i, b2b_col[1])).val)

\* the float sum of the sequence xs, left to right
FloatSum(xs) == SumRows(xs, 1..Len(xs), Len(xs))

\* the rows of the uploaded report that detect_brand gives the brand b
RowsOfBrand(b) == {i \in 1..Len(Rows) : detect_brand(Cell(i, SKU)) = b}

Returned_summary == summary_df # None

\* C1: on every table aggregate_sales succeeds on, every summary row has
\* Total Sales = Consumer Sales + B2B Sales, the three being the per-brand sums.
C1_TotalIsConsumerPlusB2B ==
  Returned_summary =>
    \A k \in 1..Len(summary_df[1]) :
      summary_df[1][k].Total_Sales =
        FAdd(summary_df[1][k].Consumer_Sales, summary_df[1][k].B2B_Sales)

\* C2, as claimed: the sum of Total Sales over the summary rows equals the sum
\* over the input rows of parse_money(consumer) + parse_money(B2B).
C2_TotalsConserved ==
  Returned_summary =>
    FloatSum([k \in 1..Len(summary_df[1]) |-> summary_df[1][k].Total_Sales])
      = FloatSum([i \in 1..Len(Rows) |-> RowTotal(i)])

\* C2, amended: every input row, a row with a blank SKU included, is counted in
\* exactly one brand group, and each brand's Total Sales is the float sum, in
\* row order, of parse_money(consumer) + parse_money(B2B) over exactly the
\* rows of that brand; no summary row is without rows.
C2_RowsCountedOnce ==
  Returned_summary =>
    /\ \A i \in 1..Len(Rows) :
         Cardinality({k \in 1..Len(summary_df[1]) :
                        summary_df[1][k].Brand = detect_brand(Cell(i, SKU))}) = 1
    /\ \A k \in 1..Len(summary_df[1]) :
         /\ RowsOfBrand(summary_df[1][k].Brand) # {}
         /\ summary_df[1][k].Total_Sales =
              SumRows([i \in 1..Len(Rows) |-> RowTotal(i)],
                      RowsOfBrand(summary_df[1][k].Brand), Len(Rows))

\* three rows, the blank-SKU row between two rows of one brand, and the grand
\* totals differ
C2_Witness ==
  /\ pc = "done"
  /\ Returned_summary
  /\ Len(Rows) = 3
  /\ Cell(2, SKU) = NaN
  /\ Len(summary_df[1]) = 2
  /\ ~C2_TotalsConserved

\* the first input row of brand b
FirstRow(b) == CHOOSE i \in RowsOfBrand(b) : \A j \in RowsOfBrand(b) : i <= j

\* C3, as claimed: the summary is in descending order of Total Sales, and brands
\* of equal Total Sales are in the order the input first shows them.
C3_TiesInFirstEncounteredOrder ==
  Returned_summary =>
    \A k \in 1..(Len(summary_df[1]) - 1) :
      \/ summary_df[1][k].Total_Sales > summary_df[1][k + 1].Total_Sales
      \/ /\ summary_df[1][k].Total_Sales = summary_df[1][k + 1].Total_Sales
         /\ FirstRow(summary_df[1][k].Brand) < FirstRow(summary_df[1][k + 1].Brand)

\* C3, amended: the summary is in descending order of Total Sales, one row for
\* each brand; the order of brands of equal Total Sales is not fixed.
C3_SortedDescending ==
  Returned_summary =>
    /\ \A k \in 1..(Len(summary_df[1]) - 1) :
         summary_df[1][k].Total_Sales >= summary_df[1][k + 1].Total_Sales
    /\ \A k, l \in 1..Len(summary_df[1]) :
         k # l => summary_df[1][k].Brand # summary_df[1][l].Brand

\* two brands of equal Total Sales, in the summary in the order opposite to the
\* one the input first shows them in
C3_Witness ==
  /\ pc = "done"
  /\ Returned_summary
  /\ Len(summary_df[1]) = 2
  /\ summary_df[1][1].Total_Sales = summary_df[1][2].Total_Sales
  /\ FirstRow(summary_df[1][2].Brand) < FirstRow(summary_df[1][1].Brand)

\* the text left of a cell after everything but digits and periods is removed
Cleaned(value) == SelectSeq(value.s, KeepsDigitOrDot)

\* C4: parse_money returns a number for every cell value and never raises; a
\* text with no digit, or with more than one period, gives 0.0.
C4_ParseMoneyNeverRaises ==
  pc = "returned" =>
    /\ ~ret.raised
    /\ (/\ arg.t = "str"
        /\ \/ \A q \in 1..Len(Cleaned(arg)) : Cleaned(arg)[q] = "."
           \/ Cardinality({q \in 1..Len(Cleaned(arg)) : Cleaned(arg)[q] = "."}) > 1)
         => ret.val = 0

\* the error find_sales_columns raises
MissingColumnError ==
  [type |-> "ValueError", msg |-> "Couldn't find 'Ordered Product Sales' column."]

\* C5: with no column named 'ordered product sales' once trimmed and lowercased,
\* find_sales_columns raises the missing-column error, aggregate_sales passes it
\* on as it is and returns no summary, whatever other columns there are.
C5_MissingConsumerColumn ==
  (Loaded /\ ~HasConsumerColumn) =>
    /\ pc \in {"load_report", "find_sales_columns", "except", "done"}
    /\ summary_df = None
    /\ df.derived = {}
    /\ pc \in {"except", "done"} => exc = Some(MissingColumnError)
    /\ pc = "done" => ui = <<Element("error", "Error processing file: ", MissingColumnError)>>

\* a report with a B2B column and no consumer column ended with the error
C5_Witness ==
  /\ pc = "done"
  /\ Loaded
  /\ ~HasConsumerColumn
  /\ HasB2BColumn
  /\ Len(Rows) > 0
  /\ exc = Some(MissingColumnError)

\* C6: with the consumer column and no B2B column (and the SKU column),
\* aggregation succeeds and every summary row has B2B Sales = 0 and
\* Total Sales = Consumer Sales.
C6_NoB2BColumnSucceeds ==
  (Loaded /\ HasConsumerColumn /\ HasSkuColumn /\ ~HasB2BColumn /\ pc = "done") =>
    /\ Returned_summary
    /\ \A k \in 1..Len(summary_df[1]) :
         /\ summary_df[1][k].B2B_Sales = 0
         /\ summary_df[1][k].Total_Sales = summary_df[1][k].Consumer_Sales

RulesMatching(s) ==
  {r \in 1..Len(BRAND_MAP) :
     /\ Len(s) >= Len(BRAND_MAP[r].pattern)
     /\ \A q \in 1..Len(BRAND_MAP[r].pattern) : s[q] = BRAND_MAP[r].pattern[q]}

\* C8: detect_brand returns, for every SKU value, the label of the first rule in
\* BRAND_MAP order whose prefix starts the SKU, in the same letter case, and
\* 'Other' exactly when no rule matches; it never fails.
C8_FirstMatchingRule ==
  pc = "returned" =>
    LET rules == RulesMatching(PyStr(arg))
    IN  /\ ~ret.raised
        /\ rules # {} =>
             ret.val = BRAND_MAP[CHOOSE r \in rules : \A q \in rules : r <= q].brand
        /\ ret.val = Other <=> rules = {}

\* the third rule decided, and the same letters in lower case matched no rule
C8_Witness ==
  /\ pc = "returned"
  /\ arg = Str(<<"E", "U", "-", "P", "C", "-", "B", "-", "1">>)
  /\ ret.val = CosyHouseEU
  /\ detect_brand(Str(Lower(arg.s))) = Other

Shown(kinds) == {k \in 1..Len(ui) : ui[k].kind \in kinds}

\* the success notice, the table and one metric for each summary row, in order
FullSummaryShown ==
  /\ Returned_summary
  /\ Len(ui) = 2 + Len(summary_df[1])
  /\ ui[1].kind = "success"
  /\ ui[2] = Element("dataframe", "Sales by Brand", summary_df[1])
  /\ \A k \in 1..Len(summary_df[1]) :
       ui[2 + k] = Element("metric", summary_df[1][k].Brand,
                           <<summary_df[1][k].Total_Sales>>)

\* one error message and nothing else
OnlyErrorShown ==
  /\ summary_df = None
  /\ exc # None
  /\ ui = <<Element("error", "Error processing file: ", exc[1])>>

C10_MissingSkuFailsFast ==
  (Loaded /\ HasConsumerColumn /\ ~HasSkuColumn) =>
    /\ summary_df = None
    /\ df.derived = {}
    /\ pc \in {"except", "done"} =>
         /\ exc[1].type \in {"MissingFieldError", "KeyError"}
         /\ exc[1].msg = "'SKU'"

=============================================================================
